---- MODULE Spec2Model ----
(***************************************************************************)
(* A model of python-dotslash: the generator make_dotslash_file.py, which  *)
(* selects one release asset per platform and emits a dotslash descriptor, *)
(* and the validator test.py, which launches each descriptor and checks    *)
(* the interpreter it starts.                                              *)
(*                                                                         *)
(* Python strings are tuples of one-character strings, so that startswith, *)
(* endswith, substring search, strip, removeprefix and removesuffix are    *)
(* computed character by character as the interpreter computes them.       *)
(***************************************************************************)
EXTENDS Integers, Sequences, FiniteSets, TLC

(***************************************************************************)
(* String literals of the two programs.                                    *)
(***************************************************************************)

\* "cpython-"
DISTRIBUTION_PREFIX ==
    <<"c", "p", "y", "t", "h", "o", "n", "-">>

\* "."
DOT ==
    <<".">>

\* ".sha256"
SHA256_SUFFIX ==
    <<".", "s", "h", "a", "2", "5", "6">>

\* "tar.gz"
EXT_TAR_GZ ==
    <<"t", "a", "r", ".", "g", "z">>

\* "tar.zst"
EXT_TAR_ZST ==
    <<"t", "a", "r", ".", "z", "s", "t">>

\* "sha256"
HASH_NAME ==
    <<"s", "h", "a", "2", "5", "6">>

\* "underlying-executable"
ARG0_VALUE ==
    <<"u", "n", "d", "e", "r", "l", "y", "i", "n", "g", "-", "e", "x", "e",
      "c", "u", "t", "a", "b", "l", "e">>

\* "#!/usr/bin/env dotslash"
SHEBANG ==
    <<"#", "!", "/", "u", "s", "r", "/", "b", "i", "n", "/", "e", "n", "v",
      " ", "d", "o", "t", "s", "l", "a", "s", "h">>

\* "t"
FREE_THREADED_SUFFIX ==
    <<"t">>

\* "free-threading build"
FREE_THREADING_PHRASE ==
    <<"f", "r", "e", "e", "-", "t", "h", "r", "e", "a", "d", "i", "n", "g",
      " ", "b", "u", "i", "l", "d">>

\* "linux-aarch64"
NAME_LINUX_AARCH64 ==
    <<"l", "i", "n", "u", "x", "-", "a", "a", "r", "c", "h", "6", "4">>

\* "linux-x86_64"
NAME_LINUX_X86_64 ==
    <<"l", "i", "n", "u", "x", "-", "x", "8", "6", "_", "6", "4">>

\* "macos-aarch64"
NAME_MACOS_AARCH64 ==
    <<"m", "a", "c", "o", "s", "-", "a", "a", "r", "c", "h", "6", "4">>

\* "macos-x86_64"
NAME_MACOS_X86_64 ==
    <<"m", "a", "c", "o", "s", "-", "x", "8", "6", "_", "6", "4">>

\* "windows-x86_64"
NAME_WINDOWS_X86_64 ==
    <<"w", "i", "n", "d", "o", "w", "s", "-", "x", "8", "6", "_", "6", "4">>

\* "aarch64-unknown-linux-gnu"
MARKER_LINUX_AARCH64 ==
    <<"a", "a", "r", "c", "h", "6", "4", "-", "u", "n", "k", "n", "o", "w",
      "n", "-", "l", "i", "n", "u", "x", "-", "g", "n", "u">>

\* "x86_64_v3-unknown-linux-gnu"
MARKER_LINUX_X86_64 ==
    <<"x", "8", "6", "_", "6", "4", "_", "v", "3", "-", "u", "n", "k", "n",
      "o", "w", "n", "-", "l", "i", "n", "u", "x", "-", "g", "n", "u">>

\* "aarch64-apple-darwin"
MARKER_MACOS_AARCH64 ==
    <<"a", "a", "r", "c", "h", "6", "4", "-", "a", "p", "p", "l", "e", "-",
      "d", "a", "r", "w", "i", "n">>

\* "x86_64-apple-darwin"
MARKER_MACOS_X86_64 ==
    <<"x", "8", "6", "_", "6", "4", "-", "a", "p", "p", "l", "e", "-", "d",
      "a", "r", "w", "i", "n">>

\* "x86_64-pc-windows-msvc-shared"
MARKER_WINDOWS_X86_64 ==
    <<"x", "8", "6", "_", "6", "4", "-", "p", "c", "-", "w", "i", "n", "d",
      "o", "w", "s", "-", "m", "s", "v", "c", "-", "s", "h", "a", "r", "e",
      "d">>

\* "install_only_stripped"
FLAVOR_STRIPPED ==
    <<"i", "n", "s", "t", "a", "l", "l", "_", "o", "n", "l", "y", "_", "s",
      "t", "r", "i", "p", "p", "e", "d">>

\* "freethreaded+lto-full"
FLAVOR_FT_LTO ==
    <<"f", "r", "e", "e", "t", "h", "r", "e", "a", "d", "e", "d", "+", "l",
      "t", "o", "-", "f", "u", "l", "l">>

\* "freethreaded+pgo+lto-full"
FLAVOR_FT_PGO_LTO ==
    <<"f", "r", "e", "e", "t", "h", "r", "e", "a", "d", "e", "d", "+", "p",
      "g", "o", "+", "l", "t", "o", "-", "f", "u", "l", "l">>

\* "freethreaded+pgo-full"
FLAVOR_FT_PGO ==
    <<"f", "r", "e", "e", "t", "h", "r", "e", "a", "d", "e", "d", "+", "p",
      "g", "o", "-", "f", "u", "l", "l">>

\* "python/bin/python"
PATH_BIN ==
    <<"p", "y", "t", "h", "o", "n", "/", "b", "i", "n", "/", "p", "y", "t",
      "h", "o", "n">>

\* "python/install/bin/python"
PATH_INSTALL_BIN ==
    <<"p", "y", "t", "h", "o", "n", "/", "i", "n", "s", "t", "a", "l", "l",
      "/", "b", "i", "n", "/", "p", "y", "t", "h", "o", "n">>

\* "python/python.exe"
PATH_EXE ==
    <<"p", "y", "t", "h", "o", "n", "/", "p", "y", "t", "h", "o", "n", ".",
      "e", "x", "e">>

\* "python/install/python.exe"
PATH_INSTALL_EXE ==
    <<"p", "y", "t", "h", "o", "n", "/", "i", "n", "s", "t", "a", "l", "l",
      "/", "p", "y", "t", "h", "o", "n", ".", "e", "x", "e">>

(***************************************************************************)
(* Input data: versions, asset-name parts, response bodies and interpreter *)
(* banners the environment may supply.                                     *)
(***************************************************************************)

\* "3.13"
VERSION_3_13 ==
    <<"3", ".", "1", "3">>

\* "3.1"
VERSION_3_1 ==
    <<"3", ".", "1">>

\* "3.13.1+20241206-"
BUILD_3_13 ==
    <<"3", ".", "1", "3", ".", "1", "+", "2", "0", "2", "4", "1", "2", "0",
      "6", "-">>

\* "3.12.8+20241206-"
BUILD_3_12 ==
    <<"3", ".", "1", "2", ".", "8", "+", "2", "0", "2", "4", "1", "2", "0",
      "6", "-">>

\* "3.1.5+20241206-"
BUILD_3_1 ==
    <<"3", ".", "1", ".", "5", "+", "2", "0", "2", "4", "1", "2", "0", "6",
      "-">>

\* "-"
DASH ==
    <<"-">>

\* "https://dl/"
URL_PREFIX ==
    <<"h", "t", "t", "p", "s", ":", "/", "/", "d", "l", "/">>

\* "zip"
EXT_ZIP ==
    <<"z", "i", "p">>

\* "install_only"
FLAVOR_INSTALL_ONLY ==
    <<"i", "n", "s", "t", "a", "l", "l", "_", "o", "n", "l", "y">>

\* "ab12\n"
DIGEST_BODY_A ==
    <<"a", "b", "1", "2", "\n">>

\* " cd 34\r\n"
DIGEST_BODY_B ==
    <<" ", "c", "d", " ", "3", "4", "\r", "\n">>

\* "3.13.1 (main) [Clang]\n"
OUT_3_13 ==
    <<"3", ".", "1", "3", ".", "1", " ", "(", "m", "a", "i", "n", ")", " ",
      "[", "C", "l", "a", "n", "g", "]", "\n">>

\* "3.13.1 experimental free-threading build (main)\n"
OUT_3_13_FT ==
    <<"3", ".", "1", "3", ".", "1", " ", "e", "x", "p", "e", "r", "i", "m",
      "e", "n", "t", "a", "l", " ", "f", "r", "e", "e", "-", "t", "h", "r",
      "e", "a", "d", "i", "n", "g", " ", "b", "u", "i", "l", "d", " ", "(",
      "m", "a", "i", "n", ")", "\n">>

\* "3.12.8 (main) [Clang]\n"
OUT_3_12 ==
    <<"3", ".", "1", "2", ".", "8", " ", "(", "m", "a", "i", "n", ")", " ",
      "[", "C", "l", "a", "n", "g", "]", "\n">>

\* "3.12.8 experimental free-threading build (main)\n"
OUT_3_12_FT ==
    <<"3", ".", "1", "2", ".", "8", " ", "e", "x", "p", "e", "r", "i", "m",
      "e", "n", "t", "a", "l", " ", "f", "r", "e", "e", "-", "t", "h", "r",
      "e", "a", "d", "i", "n", "g", " ", "b", "u", "i", "l", "d", " ", "(",
      "m", "a", "i", "n", ")", "\n">>

\* "3.1.5 free-threading build\n"
OUT_3_1_FT ==
    <<"3", ".", "1", ".", "5", " ", "f", "r", "e", "e", "-", "t", "h", "r",
      "e", "a", "d", "i", "n", "g", " ", "b", "u", "i", "l", "d", "\n">>

\* " \t\n\r"
WHITESPACE_CHARS ==
    <<" ", "\t", "\n", "\r">>

\* The ASCII characters U+0020..U+005F in code-point order.
ASCII_LOW ==
    <<" ", "!", "\"", "#", "$", "%", "&", "'", "(", ")", "*", "+", ",", "-",
      ".", "/", "0", "1", "2", "3", "4", "5", "6", "7", "8", "9", ":", ";",
      "<", "=", ">", "?", "@", "A", "B", "C", "D", "E", "F", "G", "H", "I",
      "J", "K", "L", "M", "N", "O", "P", "Q", "R", "S", "T", "U", "V", "W",
      "X", "Y", "Z", "[", "\\", "]", "^", "_">>

\* The ASCII characters U+0061..U+007E in code-point order.
ASCII_HIGH ==
    <<"a", "b", "c", "d", "e", "f", "g", "h", "i", "j", "k", "l", "m", "n",
      "o", "p", "q", "r", "s", "t", "u", "v", "w", "x", "y", "z", "{", "|",
      "}", "~">>

(***************************************************************************)
(* Bounds of the model.                                                    *)
(***************************************************************************)

\* Largest number of assets in a release handed to the asset selector alone.
MaxAssets == 2

\* Largest number of stray assets added to the full release the generator runs on.
MaxExtra == 1

\* Largest number of command-line arguments given to the validator.
MaxArgs == 2

(***************************************************************************)
(* Python's string methods, on tuples of characters.                       *)
(***************************************************************************)

\* str.startswith
StartsWith(s, p) ==
    /\ Len(p) <= Len(s)
    /\ \A i \in 1..Len(p) : s[i] = p[i]

\* str.endswith
EndsWith(s, p) ==
    /\ Len(p) <= Len(s)
    /\ \A i \in 1..Len(p) : s[Len(s) - Len(p) + i] = p[i]

\* the substring test `sub in s`
Contains(s, sub) ==
    \E k \in 0..(Len(s) - Len(sub)) : \A i \in 1..Len(sub) : s[k + i] = sub[i]

\* str.removeprefix: removes p once when s starts with it
RemovePrefix(s, p) ==
    IF StartsWith(s, p) THEN SubSeq(s, Len(p) + 1, Len(s)) ELSE s

\* str.removesuffix: removes p once when s ends with it
RemoveSuffix(s, p) ==
    IF EndsWith(s, p) THEN SubSeq(s, 1, Len(s) - Len(p)) ELSE s

\* the characters bytes.strip() removes
IsSpace(c) ==
    \E i \in 1..Len(WHITESPACE_CHARS) : WHITESPACE_CHARS[i] = c

\* bytes.strip(): s without its leading and trailing whitespace
Strip(s) ==
    LET inked == {i \in 1..Len(s) : ~IsSpace(s[i])}
        first == CHOOSE i \in inked : \A j \in inked : i <= j
        last == CHOOSE i \in inked : \A j \in inked : j <= i
    IN  IF inked = {} THEN <<>> ELSE SubSeq(s, first, last)

(***************************************************************************)
(* Data model of the generator.                                            *)
(***************************************************************************)

\* dataclass Asset
Asset(name, url, size) ==
    [name |-> name, browser_download_url |-> url, state |-> "uploaded",
     size |-> size]

\* dataclass Release
Release(name, assets) ==
    [name |-> name, tag_name |-> name, draft |-> FALSE, prerelease |-> FALSE,
     assets |-> assets]

\* dataclass PlatformConfig
PlatformConfig(marker, flavor, path) ==
    [marker |-> marker, flavor |-> flavor, path |-> path]

\* dataclass Platform
Platform(name, free_threaded) ==
    [name |-> name, free_threaded |-> free_threaded]

\* The PLATFORMS dict, as its items in insertion order.
PLATFORMS ==
    << [key |-> Platform(NAME_LINUX_AARCH64, FALSE),
        cfg |-> PlatformConfig(MARKER_LINUX_AARCH64, FLAVOR_STRIPPED, PATH_BIN)],
       [key |-> Platform(NAME_LINUX_AARCH64, TRUE),
        cfg |-> PlatformConfig(MARKER_LINUX_AARCH64, FLAVOR_FT_LTO,
                               PATH_INSTALL_BIN)],
       [key |-> Platform(NAME_LINUX_X86_64, FALSE),
        cfg |-> PlatformConfig(MARKER_LINUX_X86_64, FLAVOR_STRIPPED, PATH_BIN)],
       [key |-> Platform(NAME_LINUX_X86_64, TRUE),
        cfg |-> PlatformConfig(MARKER_LINUX_X86_64, FLAVOR_FT_PGO_LTO,
                               PATH_INSTALL_BIN)],
       [key |-> Platform(NAME_MACOS_AARCH64, FALSE),
        cfg |-> PlatformConfig(MARKER_MACOS_AARCH64, FLAVOR_STRIPPED, PATH_BIN)],
       [key |-> Platform(NAME_MACOS_AARCH64, TRUE),
        cfg |-> PlatformConfig(MARKER_MACOS_AARCH64, FLAVOR_FT_PGO_LTO,
                               PATH_INSTALL_BIN)],
       [key |-> Platform(NAME_MACOS_X86_64, FALSE),
        cfg |-> PlatformConfig(MARKER_MACOS_X86_64, FLAVOR_STRIPPED, PATH_BIN)],
       [key |-> Platform(NAME_MACOS_X86_64, TRUE),
        cfg |-> PlatformConfig(MARKER_MACOS_X86_64, FLAVOR_FT_PGO_LTO,
                               PATH_INSTALL_BIN)],
       [key |-> Platform(NAME_WINDOWS_X86_64, FALSE),
        cfg |-> PlatformConfig(MARKER_WINDOWS_X86_64, FLAVOR_STRIPPED, PATH_EXE)],
       [key |-> Platform(NAME_WINDOWS_X86_64, TRUE),
        cfg |-> PlatformConfig(MARKER_WINDOWS_X86_64, FLAVOR_FT_PGO,
                               PATH_INSTALL_EXE)] >>

\* PLATFORMS.keys(), in insertion order
PLATFORMS_keys ==
    [i \in 1..Len(PLATFORMS) |-> PLATFORMS[i].key]

\* PLATFORMS[platform]
PLATFORMS_get(platform) ==
    PLATFORMS[CHOOSE i \in 1..Len(PLATFORMS) : PLATFORMS[i].key = platform].cfg

\* The value standing for "no asset" in a failed selection.
NoAsset ==
    [name |-> <<>>, browser_download_url |-> <<>>, state |-> "none", size |-> 0]

(***************************************************************************)
(* Asset Selector.                                                         *)
(***************************************************************************)

\* A selector whose filter forgets to skip the digest sidecars.
asset_matches_keeps_sidecars(asset, version, platform_cfg) ==
    /\ StartsWith(asset.name, DISTRIBUTION_PREFIX \o version \o DOT)
    /\ Contains(asset.name, platform_cfg.marker)
    /\ Contains(asset.name, platform_cfg.flavor)

\* The filter of find_asset_for_platform's loop body: version prefix, no
\* digest sidecar, marker and flavor both present.
asset_matches(asset, version, platform_cfg) ==
    /\ StartsWith(asset.name, DISTRIBUTION_PREFIX \o version \o DOT)
    /\ ~EndsWith(asset.name, SHA256_SUFFIX)
    /\ Contains(asset.name, platform_cfg.marker)
    /\ Contains(asset.name, platform_cfg.flavor)

\* A selector that settles an ambiguous match by taking the first candidate.
find_asset_takes_first(release, version, platform) ==
    LET platform_cfg == PLATFORMS_get(platform)
        keep(a) == asset_matches(a, version, platform_cfg)
        ret == SelectSeq(release.assets, keep)
    IN  IF Len(ret) = 0
        THEN [ok |-> FALSE, error |-> "ValueError: no assets found",
              candidates |-> <<>>, value |-> NoAsset]
        ELSE [ok |-> TRUE, error |-> "none", candidates |-> <<>>,
              value |-> ret[1]]

\* find_asset_for_platform: the matching assets in release order; more than
\* one raises ValueError with the candidates' names, none raises ValueError,
\* exactly one is returned.
find_asset_for_platform(release, version, platform) ==
    LET platform_cfg == PLATFORMS_get(platform)
        keep(a) == asset_matches(a, version, platform_cfg)
        ret == SelectSeq(release.assets, keep)
    IN  IF Len(ret) > 1
        THEN [ok |-> FALSE, error |-> "ValueError: more than one asset matches",
              candidates |-> [i \in 1..Len(ret) |-> ret[i].name],
              value |-> NoAsset]
        ELSE IF Len(ret) = 0
        THEN [ok |-> FALSE, error |-> "ValueError: no assets found",
              candidates |-> <<>>, value |-> NoAsset]
        ELSE [ok |-> TRUE, error |-> "none", candidates |-> <<>>,
              value |-> ret[1]]

(***************************************************************************)
(* Releases the environment may publish.                                   *)
(***************************************************************************)

\* An asset named cpython-<build><marker>-<flavor>.<ext>, served under
\* URL_PREFIX with the same file name.
NamedAsset(build, marker, flavor, ext, size) ==
    LET name == DISTRIBUTION_PREFIX \o build \o marker \o DASH \o flavor
                    \o DOT \o ext
    IN  Asset(name, URL_PREFIX \o name, size)

\* The digest sidecar published next to an asset.
SidecarOf(asset) ==
    Asset(asset.name \o SHA256_SUFFIX,
          asset.browser_download_url \o SHA256_SUFFIX, 65)

\* The asset with its download URL's extension replaced by an unsupported one.
Zipped(asset) ==
    [asset EXCEPT !.browser_download_url =
        RemoveSuffix(RemoveSuffix(@, EXT_TAR_GZ), EXT_TAR_ZST) \o EXT_ZIP]

\* The archive extension a flavor is published with.
ExtOfFlavor(flavor) ==
    IF flavor = FLAVOR_STRIPPED THEN EXT_TAR_GZ ELSE EXT_TAR_ZST

\* A complete release of one build: one asset per PLATFORMS entry.
FullAssets(build) ==
    [i \in 1..Len(PLATFORMS) |->
        NamedAsset(build, PLATFORMS[i].cfg.marker, PLATFORMS[i].cfg.flavor,
                   ExtOfFlavor(PLATFORMS[i].cfg.flavor), 100 + i)]

\* Assets the selector is tried on: matches, sidecars, other versions
\* (3.12, and 3.1 against 3.13), near-miss flavors and a second archive of
\* the same build.
SelectorCatalogue ==
    LET la == NamedAsset(BUILD_3_13, MARKER_LINUX_AARCH64, FLAVOR_STRIPPED,
                         EXT_TAR_GZ, 101)
    IN  { la,
          SidecarOf(la),
          NamedAsset(BUILD_3_13, MARKER_LINUX_AARCH64, FLAVOR_STRIPPED,
                     EXT_TAR_ZST, 102),
          NamedAsset(BUILD_3_13, MARKER_LINUX_AARCH64, FLAVOR_INSTALL_ONLY,
                     EXT_TAR_GZ, 103),
          NamedAsset(BUILD_3_13, MARKER_LINUX_AARCH64, FLAVOR_FT_LTO,
                     EXT_TAR_ZST, 104),
          NamedAsset(BUILD_3_12, MARKER_LINUX_AARCH64, FLAVOR_STRIPPED,
                     EXT_TAR_GZ, 105),
          NamedAsset(BUILD_3_1, MARKER_LINUX_AARCH64, FLAVOR_STRIPPED,
                     EXT_TAR_GZ, 106),
          NamedAsset(BUILD_3_13, MARKER_LINUX_X86_64, FLAVOR_STRIPPED,
                     EXT_TAR_GZ, 107),
          NamedAsset(BUILD_3_13, MARKER_MACOS_X86_64, FLAVOR_FT_PGO_LTO,
                     EXT_TAR_ZST, 108),
          NamedAsset(BUILD_3_13, MARKER_MACOS_AARCH64, FLAVOR_STRIPPED,
                     EXT_TAR_GZ, 109),
          NamedAsset(BUILD_3_13, MARKER_WINDOWS_X86_64, FLAVOR_FT_PGO,
                     EXT_TAR_ZST, 110) }

\* The values of --cpython-version tried (the default "3.13", and "3.1",
\* a proper prefix of it).
Versions ==
    {VERSION_3_13, VERSION_3_1}

\* All sequences over S of length at most n.
SeqsUpTo(S, n) ==
    UNION {[1..k -> S] : k \in 0..n}

(***************************************************************************)
(* Descriptor Builder.                                                     *)
(***************************************************************************)

\* ALLOWED_EXTENSIONS, in list order
ALLOWED_EXTENSIONS ==
    <<EXT_TAR_GZ, EXT_TAR_ZST>>

\* The value standing for "no descriptor" when platform_descriptor raises.
NoDescriptor ==
    [size |-> 0, hash |-> <<>>, digest |-> <<>>, format |-> <<>>,
     path |-> <<>>, providers |-> <<>>, arg0 |-> <<>>]

\* A builder that opens the digest URL before looking at the extension.
platform_descriptor_fetches_first(platform, asset, response) ==
    LET url == asset.browser_download_url
        hits == {i \in 1..Len(ALLOWED_EXTENSIONS) :
                    EndsWith(url, ALLOWED_EXTENSIONS[i])}
        last == CHOOSE i \in hits : \A j \in hits : j <= i
    IN  IF response.status >= 400
        THEN [ok |-> FALSE, error |-> "HTTPError",
              requests |-> <<url \o SHA256_SUFFIX>>, value |-> NoDescriptor]
        ELSE IF response.status # 200
        THEN [ok |-> FALSE, error |-> "RuntimeError: failed to fetch digest",
              requests |-> <<url \o SHA256_SUFFIX>>, value |-> NoDescriptor]
        ELSE IF hits = {}
        THEN [ok |-> FALSE, error |-> "ValueError: asset not supported",
              requests |-> <<url \o SHA256_SUFFIX>>, value |-> NoDescriptor]
        ELSE [ok |-> TRUE, error |-> "none",
              requests |-> <<url \o SHA256_SUFFIX>>,
              value |-> [size |-> asset.size,
                         hash |-> HASH_NAME,
                         digest |-> Strip(response.body),
                         format |-> ALLOWED_EXTENSIONS[last],
                         path |-> PLATFORMS_get(platform).path,
                         providers |-> << [url |-> url] >>,
                         arg0 |-> ARG0_VALUE]]

\* A builder that keeps the whitespace around the digest.
platform_descriptor_keeps_whitespace(platform, asset, response) ==
    LET url == asset.browser_download_url
        hits == {i \in 1..Len(ALLOWED_EXTENSIONS) :
                    EndsWith(url, ALLOWED_EXTENSIONS[i])}
        last == CHOOSE i \in hits : \A j \in hits : j <= i
    IN  IF hits = {}
        THEN [ok |-> FALSE, error |-> "ValueError: asset not supported",
              requests |-> <<>>, value |-> NoDescriptor]
        ELSE IF response.status >= 400
        THEN [ok |-> FALSE, error |-> "HTTPError",
              requests |-> <<url \o SHA256_SUFFIX>>, value |-> NoDescriptor]
        ELSE IF response.status # 200
        THEN [ok |-> FALSE, error |-> "RuntimeError: failed to fetch digest",
              requests |-> <<url \o SHA256_SUFFIX>>, value |-> NoDescriptor]
        ELSE [ok |-> TRUE, error |-> "none",
              requests |-> <<url \o SHA256_SUFFIX>>,
              value |-> [size |-> asset.size,
                         hash |-> HASH_NAME,
                         digest |-> response.body,
                         format |-> ALLOWED_EXTENSIONS[last],
                         path |-> PLATFORMS_get(platform).path,
                         providers |-> << [url |-> url] >>,
                         arg0 |-> ARG0_VALUE]]

\* platform_descriptor, given the response the digest URL would return.
\* The loop keeps the last allowed extension the URL ends with; with none,
\* ValueError is raised before urlopen is called.  urlopen itself raises
\* HTTPError on an error status; any other status but 200 raises the
\* RuntimeError.  `requests` lists the URLs opened by the call.
platform_descriptor(platform, asset, response) ==
    LET url == asset.browser_download_url
        hits == {i \in 1..Len(ALLOWED_EXTENSIONS) :
                    EndsWith(url, ALLOWED_EXTENSIONS[i])}
        last == CHOOSE i \in hits : \A j \in hits : j <= i
    IN  IF hits = {}
        THEN [ok |-> FALSE, error |-> "ValueError: asset not supported",
              requests |-> <<>>, value |-> NoDescriptor]
        ELSE IF response.status >= 400
        THEN [ok |-> FALSE, error |-> "HTTPError",
              requests |-> <<url \o SHA256_SUFFIX>>, value |-> NoDescriptor]
        ELSE IF response.status # 200
        THEN [ok |-> FALSE, error |-> "RuntimeError: failed to fetch digest",
              requests |-> <<url \o SHA256_SUFFIX>>, value |-> NoDescriptor]
        ELSE [ok |-> TRUE, error |-> "none",
              requests |-> <<url \o SHA256_SUFFIX>>,
              value |-> [size |-> asset.size,
                         hash |-> HASH_NAME,
                         digest |-> Strip(response.body),
                         format |-> ALLOWED_EXTENSIONS[last],
                         path |-> PLATFORMS_get(platform).path,
                         providers |-> << [url |-> url] >>,
                         arg0 |-> ARG0_VALUE]]

(***************************************************************************)
(* Manifest Emitter: dicts, json.dumps(sort_keys=True) and json.loads.     *)
(***************************************************************************)

\* The empty dict.
EmptyDict ==
    [k \in {} |-> NoDescriptor]

\* d[k] = v on a dict: a new key is added, an existing key is overwritten.
DictSet(d, k, v) ==
    [x \in (DOMAIN d) \cup {k} |-> IF x = k THEN v ELSE d[x]]

\* ord(c) for a printable ASCII character other than the grave accent
Ord(c) ==
    IF \E i \in 1..Len(ASCII_LOW) : ASCII_LOW[i] = c
    THEN 31 + (CHOOSE i \in 1..Len(ASCII_LOW) : ASCII_LOW[i] = c)
    ELSE 96 + (CHOOSE i \in 1..Len(ASCII_HIGH) : ASCII_HIGH[i] = c)

\* a < b in Python's string order (by code point, a proper prefix first)
StrLess(a, b) ==
    \/ /\ Len(a) < Len(b)
       /\ \A i \in 1..Len(a) : a[i] = b[i]
    \/ \E k \in 1..Len(a) :
          /\ k <= Len(b)
          /\ \A i \in 1..(k - 1) : a[i] = b[i]
          /\ Ord(a[k]) < Ord(b[k])

\* sorted(keys)
RECURSIVE SortedKeys(_)
SortedKeys(keys) ==
    IF keys = {} THEN <<>>
    ELSE LET least == CHOOSE k \in keys :
                          \A other \in keys \ {k} : StrLess(k, other)
         IN  <<least>> \o SortedKeys(keys \ {least})

\* json.dumps(descriptor, indent=2, sort_keys=True): the document as text,
\* its members in sorted key order ("name" before "platforms", the
\* platforms by name).
json_dumps(descriptor) ==
    LET keys == SortedKeys(DOMAIN descriptor.platforms)
    IN  << <<"name", descriptor.name>>,
           <<"platforms",
             [i \in 1..Len(keys) |->
                 <<keys[i], descriptor.platforms[keys[i]]>>]>> >>

\* One line of text of a file or of standard output.
TextLine(chars) ==
    [kind |-> "text", value |-> chars]

\* The lines holding one serialized JSON document.
JsonText(members) ==
    [kind |-> "json", value |-> members]

\* The dict a sequence of <<key, value>> members denotes (json.loads keeps
\* the last value of a repeated key).
ObjectOf(members) ==
    [k \in {members[i][1] : i \in 1..Len(members)} |->
        LET at == {i \in 1..Len(members) : members[i][1] = k}
            last == CHOOSE i \in at : \A j \in at : j <= i
        IN  members[last][2]]

\* A line holding nothing but whitespace.
IsBlankLine(line) ==
    line.kind = "text" /\ Strip(line.value) = <<>>

\* json.loads on the lines of a text: whitespace around the single document
\* is skipped; anything else is a JSONDecodeError.
json_loads(lines) ==
    LET inked == SelectSeq(lines, LAMBDA l : ~IsBlankLine(l))
    IN  IF Len(inked) = 1 /\ inked[1].kind = "json"
        THEN LET top == ObjectOf(inked[1].value)
             IN  [ok |-> TRUE,
                  value |-> [k \in DOMAIN top |->
                                IF k = "platforms" THEN ObjectOf(top[k])
                                ELSE top[k]]]
        ELSE [ok |-> FALSE, value |-> <<>>]

(***************************************************************************)
(* Descriptor Validator.                                                   *)
(***************************************************************************)

\* The free-threaded flag check_path reads off a descriptor name: the
\* version left after "cpython-" ends with "t".
declared_free_threaded(name) ==
    EndsWith(RemovePrefix(name, DISTRIBUTION_PREFIX), FREE_THREADED_SUFFIX)

\* A validator that forgets to strip the trailing "t".
declared_version_keeps_suffix(name) ==
    RemovePrefix(name, DISTRIBUTION_PREFIX)

\* The version check_path expects the interpreter to report: the name
\* without "cpython-" and without one trailing "t".
declared_version(name) ==
    RemoveSuffix(RemovePrefix(name, DISTRIBUTION_PREFIX), FREE_THREADED_SUFFIX)

\* check_path on a file with the given contents, when running dotslash on
\* it would end as `launch` (returncode, stdout).  `events` lists what the
\* call did: reading the file, starting the launcher.
check_path(contents, launch) ==
    LET descriptor_text == IF contents = <<>> THEN <<>> ELSE Tail(contents)
        parsed == json_loads(descriptor_text)
        descriptor == parsed.value
        name == descriptor["name"]
        free_threaded == declared_free_threaded(name)
        version == declared_version(name)
        is_free_threading_build ==
            Contains(launch.stdout, FREE_THREADING_PHRASE)
    IN  IF ~parsed.ok
        THEN [outcome |-> "JSONDecodeError", events |-> <<"read">>]
        ELSE IF "name" \notin DOMAIN descriptor
        THEN [outcome |-> "KeyError", events |-> <<"read">>]
        ELSE IF launch.returncode # 0
        THEN [outcome |-> "CalledProcessError", events |-> <<"read", "run">>]
        ELSE IF ~StartsWith(launch.stdout, version)
        THEN [outcome |-> "AssertionError: version not found",
              events |-> <<"read", "run">>]
        ELSE IF free_threaded # is_free_threading_build
        THEN [outcome |-> "AssertionError: free_threaded mismatch",
              events |-> <<"read", "run">>]
        ELSE [outcome |-> "pass", events |-> <<"read", "run">>]

\* The descriptor_paths main builds from its arguments: a directory is
\* replaced by its entries, a file is kept.
RECURSIVE expand_args(_)
expand_args(args) ==
    IF args = <<>> THEN <<>>
    ELSE (IF Head(args).is_dir THEN Head(args).entries ELSE <<Head(args).file>>)
             \o expand_args(Tail(args))

(***************************************************************************)
(* Release Fetcher.                                                        *)
(***************************************************************************)

\* The value of `rel` before the release is fetched.
NoRelease ==
    Release(<<>>, <<>>)

\* fetch_latest_release, given the response of the releases/latest
\* endpoint: urlopen raises HTTPError on an error status, any other status
\* but 200 raises RuntimeError, a body lacking a required field raises
\* KeyError, otherwise the published release is returned.
fetch_latest_release(response, published) ==
    IF response.status >= 400
    THEN [ok |-> FALSE, error |-> "HTTPError", value |-> NoRelease]
    ELSE IF response.status # 200
    THEN [ok |-> FALSE, error |-> "RuntimeError: failed to fetch release info",
          value |-> NoRelease]
    ELSE IF ~response.well_formed
    THEN [ok |-> FALSE, error |-> "KeyError", value |-> NoRelease]
    ELSE [ok |-> TRUE, error |-> "none", value |-> published]

\* The URL fetch_latest_release opens.
RELEASES_LATEST_URL ==
    <<"releases/latest">>

(***************************************************************************)
(* State.                                                                  *)
(***************************************************************************)

VARIABLES
    \* --- the generator (make_dotslash_file.py) and its environment ---
    remote,                 \* the release the API serves
    digest_body,            \* the body the digest endpoint serves
    args,                   \* parsed arguments: cpython_version, free_threaded
    pc,                     \* position of main
    rel,                    \* main's `rel`
    idx,                    \* position of the comprehension in the requested platforms
    asset,                  \* the asset selected for the current platform
    platform_descriptors,   \* the dict being built
    stdout,                 \* lines printed so far
    requests,               \* URLs opened so far with the status returned, in order
    error,                  \* the exception that ended main, or "none"
    validation,             \* check_path's verdict on the emitted file
    \* --- find_asset_for_platform called on its own ---
    sel_call,               \* the arguments
    sel_ret,                \* the result, once returned
    \* --- the validator (test.py) and its environment ---
    dotslash,               \* whether shutil.which finds the launcher
    argv,                   \* sys.argv[1:]
    vpc,                    \* position of the validator's main
    descriptor_paths,       \* main's `descriptor_paths`
    vidx,                   \* position of the loop over descriptor_paths
    failure,                \* main's `failure`
    exit_status,            \* the exit status, once vpc = "exited"
    events,                 \* file reads and launcher runs so far, in order
    outcomes                \* how each check_path call ended, with its launch if any

genVars ==
    <<remote, digest_body, args, pc, rel, idx, asset, platform_descriptors,
      stdout, requests, error, validation>>

selVars ==
    <<sel_call, sel_ret>>

valVars ==
    <<dotslash, argv, vpc, descriptor_paths, vidx, failure, exit_status,
      events, outcomes>>

vars ==
    <<genVars, selVars, valVars>>

(***************************************************************************)
(* The environment of the generator.                                       *)
(***************************************************************************)

\* The sequence s without its i-th element.
Without(s, i) ==
    SubSeq(s, 1, i - 1) \o SubSeq(s, i + 1, Len(s))

\* Stray assets a release may carry besides its full set: a digest sidecar,
\* a second archive of a non-free-threaded build and a second archive of a
\* free-threaded build.
ExtraCatalogue ==
    { SidecarOf(FullAssets(BUILD_3_13)[1]),
      NamedAsset(BUILD_3_13, MARKER_MACOS_AARCH64, FLAVOR_STRIPPED,
                 EXT_TAR_ZST, 202),
      NamedAsset(BUILD_3_13, MARKER_WINDOWS_X86_64, FLAVOR_FT_PGO,
                 EXT_TAR_GZ, 203) }

\* The asset lists of the releases the generator is run on: the full 3.13
\* and 3.1 builds, possibly with one 3.13 asset missing or served under an
\* unsupported extension, followed by at most MaxExtra stray assets.
GeneratorAssetLists ==
    LET full == FullAssets(BUILD_3_13) \o FullAssets(BUILD_3_1)
        cores == {full}
                 \cup {Without(full, i) : i \in 1..Len(PLATFORMS)}
                 \cup {[full EXCEPT ![i] = Zipped(@)] : i \in 1..Len(PLATFORMS)}
    IN  {core \o extra : core \in cores,
                         extra \in SeqsUpTo(ExtraCatalogue, MaxExtra)}

\* Responses of the releases/latest endpoint.
ReleaseResponses ==
    { [status |-> 200, well_formed |-> TRUE],
      [status |-> 200, well_formed |-> FALSE],
      [status |-> 204, well_formed |-> FALSE],
      [status |-> 404, well_formed |-> FALSE] }

\* Statuses the digest endpoint may answer with.
DigestStatuses ==
    {200, 204, 404}

\* Bodies the digest endpoint may serve.
DigestBodies ==
    {DIGEST_BODY_A, DIGEST_BODY_B}

\* Ways a launcher run may end: a non-zero exit, or success with a banner.
Launches ==
    { [returncode |-> 1, stdout |-> <<>>] }
    \cup { [returncode |-> 0, stdout |-> out] :
              out \in {OUT_3_13, OUT_3_13_FT, OUT_3_12, OUT_3_12_FT,
                       OUT_3_1_FT} }

\* The launch recorded for a check_path call that never started the launcher.
NotLaunched ==
    [returncode |-> -1, stdout |-> <<>>]

\* The value of `validation` before the emitted file is checked.
NotValidated ==
    [launch |-> [returncode |-> 0, stdout |-> <<>>], outcome |-> "none"]

\* The value of sel_ret before find_asset_for_platform returns.
Pending ==
    [ok |-> FALSE, error |-> "pending", candidates |-> <<>>, value |-> NoAsset]

\* The value of sel_call when the selector is not exercised on its own.
NoCall ==
    [release |-> NoRelease, version |-> <<>>, platform |-> PLATFORMS_keys[1]]

(***************************************************************************)
(* The generator's main.                                                   *)
(***************************************************************************)

\* A comprehension without its `if` clause: every key of PLATFORMS.
requested_platforms_ignores_flag(free_threaded) ==
    PLATFORMS_keys

\* The platforms the comprehension of main visits: the keys of PLATFORMS,
\* in order, whose free_threaded equals the --free-threaded flag.
requested_platforms(free_threaded) ==
    SelectSeq(PLATFORMS_keys, LAMBDA p : p.free_threaded = free_threaded)

\* The platform the comprehension is at.
CurrentPlatform ==
    requested_platforms(args.free_threaded)[idx]

\* main dies with an uncaught exception.
Abort(e) ==
    /\ error' = e
    /\ pc' = "failed"

\* A main that prints the header before it fetches anything.
Main_FetchRelease_prints_header ==
    /\ pc = "fetch"
    /\ stdout' = stdout \o <<TextLine(SHEBANG), TextLine(<<>>)>>
    /\ \E response \in ReleaseResponses :
          LET r == fetch_latest_release(response, remote)
          IN  /\ requests' = Append(requests, [url |-> RELEASES_LATEST_URL,
                                                status |-> response.status])
              /\ IF r.ok
                 THEN /\ rel' = r.value
                      /\ pc' = "select"
                      /\ UNCHANGED error
                 ELSE /\ Abort(r.error)
                      /\ UNCHANGED rel
    /\ UNCHANGED <<remote, digest_body, args, idx, asset,
                   platform_descriptors, validation>>

\* rel = fetch_latest_release()
Main_FetchRelease ==
    /\ pc = "fetch"
    /\ \E response \in ReleaseResponses :
          LET r == fetch_latest_release(response, remote)
          IN  /\ requests' = Append(requests, [url |-> RELEASES_LATEST_URL,
                                                status |-> response.status])
              /\ IF r.ok
                 THEN /\ rel' = r.value
                      /\ pc' = "select"
                      /\ UNCHANGED error
                 ELSE /\ Abort(r.error)
                      /\ UNCHANGED rel
    /\ UNCHANGED <<remote, digest_body, args, idx, asset,
                   platform_descriptors, stdout, validation>>

\* find_asset_for_platform(rel, version, platform) for the next platform
Main_Select ==
    /\ pc = "select"
    /\ LET r == find_asset_for_platform(rel, args.cpython_version,
                                        CurrentPlatform)
       IN  IF r.ok
           THEN /\ asset' = r.value
                /\ pc' = "build"
                /\ UNCHANGED error
           ELSE /\ Abort(r.error)
                /\ UNCHANGED asset
    /\ UNCHANGED <<remote, digest_body, args, rel, idx,
                   platform_descriptors, stdout, requests, validation>>

\* platform_descriptors[platform.name] = platform_descriptor(platform, asset)
Main_Build ==
    /\ pc = "build"
    /\ \E status \in DigestStatuses :
          LET r == platform_descriptor(CurrentPlatform, asset,
                     [status |-> status, body |-> digest_body])
          IN  /\ requests' = requests \o
                    [i \in 1..Len(r.requests) |->
                        [url |-> r.requests[i], status |-> status]]
              /\ IF r.ok
                 THEN /\ platform_descriptors' =
                            DictSet(platform_descriptors,
                                    CurrentPlatform.name, r.value)
                      /\ idx' = idx + 1
                      /\ pc' = IF idx = Len(requested_platforms(args.free_threaded))
                               THEN "emit" ELSE "select"
                      /\ UNCHANGED error
                 ELSE /\ Abort(r.error)
                      /\ UNCHANGED <<platform_descriptors, idx>>
    /\ UNCHANGED <<remote, digest_body, args, rel, asset, stdout, validation>>

\* The descriptor main serializes.
descriptor_of(version, platforms) ==
    [name |-> DISTRIBUTION_PREFIX \o version, platforms |-> platforms]

\* The three print calls that end main.
Main_Emit ==
    /\ pc = "emit"
    /\ stdout' = stdout \o
          << TextLine(SHEBANG),
             TextLine(<<>>),
             JsonText(json_dumps(descriptor_of(args.cpython_version,
                                               platform_descriptors))) >>
    /\ pc' = "done"
    /\ UNCHANGED <<remote, digest_body, args, rel, idx, asset,
                   platform_descriptors, requests, error, validation>>

\* The validator's check_path run on the file the generator's output was
\* saved to.
Pipeline_Check ==
    /\ pc = "done"
    /\ validation = NotValidated
    /\ \E launch \in Launches :
          validation' = [launch |-> launch,
                         outcome |-> check_path(stdout, launch).outcome]
    /\ UNCHANGED <<remote, digest_body, args, pc, rel, idx, asset,
                   platform_descriptors, stdout, requests, error>>

GenIdle ==
    /\ remote = NoRelease
    /\ digest_body = <<>>
    /\ args = [cpython_version |-> <<>>, free_threaded |-> FALSE]
    /\ pc = "idle"
    /\ rel = NoRelease
    /\ idx = 1
    /\ asset = NoAsset
    /\ platform_descriptors = EmptyDict
    /\ stdout = <<>>
    /\ requests = <<>>
    /\ error = "none"
    /\ validation = NotValidated

SelIdle ==
    /\ sel_call = NoCall
    /\ sel_ret = Pending

ValIdle ==
    /\ dotslash = FALSE
    /\ argv = <<>>
    /\ vpc = "idle"
    /\ descriptor_paths = <<>>
    /\ vidx = 1
    /\ failure = FALSE
    /\ exit_status = 0
    /\ events = <<>>
    /\ outcomes = <<>>

\* A run of the generator: any release, version and flag.
Init ==
    /\ remote \in {Release(BUILD_3_13, assets) : assets \in GeneratorAssetLists}
    /\ digest_body \in DigestBodies
    /\ args \in [cpython_version : Versions, free_threaded : BOOLEAN]
    /\ pc = "fetch"
    /\ rel = NoRelease
    /\ idx = 1
    /\ asset = NoAsset
    /\ platform_descriptors = EmptyDict
    /\ stdout = <<>>
    /\ requests = <<>>
    /\ error = "none"
    /\ validation = NotValidated
    /\ SelIdle
    /\ ValIdle

Next ==
    \/ /\ Main_FetchRelease
       /\ UNCHANGED <<selVars, valVars>>
    \/ /\ Main_Select
       /\ UNCHANGED <<selVars, valVars>>
    \/ /\ Main_Build
       /\ UNCHANGED <<selVars, valVars>>
    \/ /\ Main_Emit
       /\ UNCHANGED <<selVars, valVars>>
    \/ /\ Pipeline_Check
       /\ UNCHANGED <<selVars, valVars>>

Spec ==
    Init /\ [][Next]_vars

(***************************************************************************)
(* The asset selector on its own.                                          *)
(***************************************************************************)

\* find_asset_for_platform is called and returns.
Select_Call ==
    /\ sel_ret = Pending
    /\ sel_ret' = find_asset_for_platform(sel_call.release, sel_call.version,
                                          sel_call.platform)
    /\ UNCHANGED <<sel_call, genVars, valVars>>

SelectInit ==
    /\ sel_call \in [release : {Release(BUILD_3_13, assets) :
                                  assets \in SeqsUpTo(SelectorCatalogue, MaxAssets)},
                     version : Versions,
                     platform : {PLATFORMS_keys[i] : i \in 1..Len(PLATFORMS_keys)}]
    /\ sel_ret = Pending
    /\ GenIdle
    /\ ValIdle

SelectNext ==
    Select_Call

SelectSpec ==
    SelectInit /\ [][SelectNext]_vars

(***************************************************************************)
(* The validator's main.                                                   *)
(***************************************************************************)

\* A descriptor file: the shebang line, a blank line and the document.
DescriptorFile(version_text) ==
    << TextLine(SHEBANG),
       TextLine(<<>>),
       JsonText(json_dumps(descriptor_of(version_text, EmptyDict))) >>

\* Files the validator is run on: descriptors named cpython-3.13,
\* cpython-3.13t and cpython-3.1t, a file that is not JSON after its first
\* line, and a JSON document without a "name".
FileCatalogue ==
    { DescriptorFile(VERSION_3_13),
      DescriptorFile(VERSION_3_13 \o FREE_THREADED_SUFFIX),
      DescriptorFile(VERSION_3_1 \o FREE_THREADED_SUFFIX),
      << TextLine(SHEBANG), TextLine(DIGEST_BODY_A) >>,
      << TextLine(SHEBANG), JsonText(<< <<"platforms", <<>>>> >>) >> }

\* A command-line argument naming a file.
FileArg(contents) ==
    [is_dir |-> FALSE, file |-> contents, entries |-> <<>>]

\* A command-line argument naming a directory with the given entries.
DirArg(entries) ==
    [is_dir |-> TRUE, file |-> <<>>, entries |-> entries]

\* Arguments the validator is given: each file, an empty directory and a
\* directory of two files, the first of which does not parse.
ArgCatalogue ==
    {FileArg(f) : f \in FileCatalogue}
    \cup { DirArg(<<>>),
           DirArg(<< << TextLine(SHEBANG), TextLine(DIGEST_BODY_A) >>,
                     DescriptorFile(VERSION_3_13) >>) }

\* A main that does not look for the launcher before it starts.
Validator_Start_ignores_missing ==
    /\ vpc = "start"
    /\ descriptor_paths' = expand_args(argv)
    /\ vpc' = "loop"
    /\ UNCHANGED <<dotslash, argv, vidx, failure, events, outcomes,
                   exit_status>>

\* shutil.which, the missing-launcher exit and the expansion of the arguments
Validator_Start ==
    /\ vpc = "start"
    /\ IF ~dotslash
       THEN /\ exit_status' = -1
            /\ vpc' = "exited"
            /\ UNCHANGED descriptor_paths
       ELSE /\ descriptor_paths' = expand_args(argv)
            /\ vpc' = "loop"
            /\ UNCHANGED exit_status
    /\ UNCHANGED <<dotslash, argv, vidx, failure, events, outcomes>>

\* A loop without try/except: the first failing file ends it.
Validator_CheckPath_stops_at_failure ==
    /\ vpc = "loop"
    /\ vidx <= Len(descriptor_paths)
    /\ \E launch \in Launches :
          LET r == check_path(descriptor_paths[vidx], launch)
          IN  /\ failure' = (failure \/ r.outcome # "pass")
              /\ events' = events \o
                    [i \in 1..Len(r.events) |->
                        [op |-> r.events[i], path |-> vidx]]
              /\ outcomes' = Append(outcomes,
                    [path |-> vidx,
                     launch |-> IF Len(r.events) = 2 THEN launch ELSE NotLaunched,
                     outcome |-> r.outcome])
              /\ vidx' = IF r.outcome = "pass" THEN vidx + 1
                         ELSE Len(descriptor_paths) + 1
    /\ UNCHANGED <<dotslash, argv, vpc, descriptor_paths, exit_status>>

\* One iteration of the loop: check_path under try/except Exception
Validator_CheckPath ==
    /\ vpc = "loop"
    /\ vidx <= Len(descriptor_paths)
    /\ \E launch \in Launches :
          LET r == check_path(descriptor_paths[vidx], launch)
          IN  /\ failure' = (failure \/ r.outcome # "pass")
              /\ events' = events \o
                    [i \in 1..Len(r.events) |->
                        [op |-> r.events[i], path |-> vidx]]
              /\ outcomes' = Append(outcomes,
                    [path |-> vidx,
                     launch |-> IF Len(r.events) = 2 THEN launch ELSE NotLaunched,
                     outcome |-> r.outcome])
    /\ vidx' = vidx + 1
    /\ UNCHANGED <<dotslash, argv, vpc, descriptor_paths, exit_status>>

\* After the loop: sys.exit(1) on failure, a normal return otherwise
Validator_Exit ==
    /\ vpc = "loop"
    /\ vidx > Len(descriptor_paths)
    /\ exit_status' = IF failure THEN 1 ELSE 0
    /\ vpc' = "exited"
    /\ UNCHANGED <<dotslash, argv, descriptor_paths, vidx, failure, events,
                   outcomes>>

\* A run of the validator: any arguments, with or without the launcher.
ValidatorInit ==
    /\ dotslash \in BOOLEAN
    /\ argv \in SeqsUpTo(ArgCatalogue, MaxArgs)
    /\ vpc = "start"
    /\ descriptor_paths = <<>>
    /\ vidx = 1
    /\ failure = FALSE
    /\ exit_status = 0
    /\ events = <<>>
    /\ outcomes = <<>>
    /\ GenIdle
    /\ SelIdle

ValidatorNext ==
    \/ /\ Validator_Start
       /\ UNCHANGED <<genVars, selVars>>
    \/ /\ Validator_CheckPath
       /\ UNCHANGED <<genVars, selVars>>
    \/ /\ Validator_Exit
       /\ UNCHANGED <<genVars, selVars>>

ValidatorSpec ==
    ValidatorInit /\ [][ValidatorNext]_vars

(***************************************************************************)
(* Properties of the asset selector (checked under SelectSpec).            *)
(***************************************************************************)

\* The four tests of the selection filter as the specification states them.
PassesFilter(a, version, platform) ==
    /\ StartsWith(a.name, DISTRIBUTION_PREFIX \o version \o DOT)
    /\ ~EndsWith(a.name, SHA256_SUFFIX)
    /\ Contains(a.name, PLATFORMS_get(platform).marker)
    /\ Contains(a.name, PLATFORMS_get(platform).flavor)

\* The positions of the called release's assets that pass the filter.
PassingPositions ==
    {i \in 1..Len(sel_call.release.assets) :
        PassesFilter(sel_call.release.assets[i], sel_call.version,
                     sel_call.platform)}

\* C1: when exactly one asset of the release passes the four tests
\* (starts with "cpython-<v>.", is no .sha256 sidecar, contains the marker,
\* contains the flavor), find_asset_for_platform returns that asset; and
\* whatever it returns is an asset of the release that passes all four.
C1_UniqueMatchReturned ==
    sel_ret # Pending =>
        /\ Cardinality(PassingPositions) = 1 =>
              /\ sel_ret.ok
              /\ \A i \in PassingPositions :
                    sel_ret.value = sel_call.release.assets[i]
        /\ sel_ret.ok =>
              \E i \in PassingPositions :
                    sel_ret.value = sel_call.release.assets[i]

\* C1 witness: version "3.1" was asked for, the release holds a 3.13
\* asset next to the 3.1 asset, and the 3.1 asset was returned.
C1_Witness ==
    /\ sel_ret.ok
    /\ sel_call.version = VERSION_3_1
    /\ Len(sel_call.release.assets) = 2
    /\ \E i \in 1..2 :
          StartsWith(sel_call.release.assets[i].name,
                     DISTRIBUTION_PREFIX \o VERSION_3_13 \o DOT)
    /\ StartsWith(sel_ret.value.name, DISTRIBUTION_PREFIX \o BUILD_3_1)

\* A second case of C1: the release holds the returned asset and its
\* .sha256 sidecar, and the sidecar was skipped.
C1_SidecarSkipped ==
    /\ sel_ret.ok
    /\ \E i \in 1..Len(sel_call.release.assets) :
          sel_call.release.assets[i] = SidecarOf(sel_ret.value)

\* C2: with no passing asset the call fails with the no-match error; with
\* two or more it fails with the ambiguous-match error, whose candidates
\* are the names of exactly the passing assets; no asset is returned.
C2_NoMatchAndAmbiguousFail ==
    sel_ret # Pending =>
        /\ PassingPositions = {} =>
              /\ ~sel_ret.ok
              /\ sel_ret.error = "ValueError: no assets found"
              /\ sel_ret.value = NoAsset
        /\ Cardinality(PassingPositions) >= 2 =>
              /\ ~sel_ret.ok
              /\ sel_ret.error = "ValueError: more than one asset matches"
              /\ sel_ret.value = NoAsset
              /\ Len(sel_ret.candidates) = Cardinality(PassingPositions)
              /\ {sel_ret.candidates[i] : i \in 1..Len(sel_ret.candidates)}
                    = {sel_call.release.assets[i].name : i \in PassingPositions}

\* C2 witness: two different assets passed and both are listed.
C2_Witness ==
    /\ sel_ret.error = "ValueError: more than one asset matches"
    /\ Len(sel_ret.candidates) = 2
    /\ sel_ret.candidates[1] # sel_ret.candidates[2]

(***************************************************************************)
(* Properties of the generator (checked under Spec).                       *)
(***************************************************************************)

\* The URL ends with one of the supported extensions, "tar.gz" or "tar.zst".
SupportedUrl(url) ==
    EndsWith(url, EXT_TAR_GZ) \/ EndsWith(url, EXT_TAR_ZST)

\* The digest URL of an asset: its download URL followed by ".sha256".
DigestUrl(a) ==
    a.browser_download_url \o SHA256_SUFFIX

\* The platform names configured in PLATFORMS with free_threaded = f.
ConfiguredNames(f) ==
    {PLATFORMS[i].key.name :
        i \in {j \in 1..Len(PLATFORMS) : PLATFORMS[j].key.free_threaded = f}}

\* The digest endpoint's body with its surrounding whitespace removed.
TrimmedDigest ==
    IF digest_body = DIGEST_BODY_A
    THEN <<"a", "b", "1", "2">>
    ELSE <<"c", "d", " ", "3", "4">>

\* The descriptor the specification prescribes for platform p and asset a.
PrescribedDescriptor(p, a) ==
    [size |-> a.size,
     hash |-> <<"s", "h", "a", "2", "5", "6">>,
     digest |-> TrimmedDigest,
     format |-> IF EndsWith(a.browser_download_url, EXT_TAR_GZ)
                THEN EXT_TAR_GZ ELSE EXT_TAR_ZST,
     path |-> PLATFORMS_get(p).path,
     providers |-> << [url |-> a.browser_download_url] >>,
     arg0 |-> ARG0_VALUE]

\* C3: when the selected asset's URL ends with no supported extension, the
\* build step fails with the format error and opens no URL; and no digest
\* URL is ever opened for an asset whose URL is unsupported.
C3_ExtensionCheckedBeforeDigestFetch ==
    /\ [](\A i \in 1..Len(requests) :
             EndsWith(requests[i].url, SHA256_SUFFIX) =>
                SupportedUrl(RemoveSuffix(requests[i].url, SHA256_SUFFIX)))
    /\ [][(pc = "build" /\ ~SupportedUrl(asset.browser_download_url)) =>
             /\ pc' = "failed"
             /\ error' = "ValueError: asset not supported"
             /\ requests' = requests]_vars

\* C3 witness: a run ended by the format error, after earlier platforms
\* were built, with no request for the rejected asset's digest.
C3_Witness ==
    /\ error = "ValueError: asset not supported"
    /\ ~SupportedUrl(asset.browser_download_url)
    /\ Len(requests) >= 2
    /\ \A i \in 1..Len(requests) : requests[i].url # DigestUrl(asset)

\* C7: a build step on an asset with a supported URL opens exactly the
\* digest URL; on status 200 the platform's entry becomes the prescribed
\* descriptor (size, "sha256", trimmed digest, format, configured path, one
\* provider with the asset's URL, arg0); on any other status main fails
\* and no entry is added.
C7_DescriptorContents ==
    [][(pc = "build" /\ SupportedUrl(asset.browser_download_url)) =>
          /\ Len(requests') = Len(requests) + 1
          /\ requests'[Len(requests')].url = DigestUrl(asset)
          /\ IF requests'[Len(requests')].status = 200
             THEN /\ error' = "none"
                  /\ CurrentPlatform.name \in DOMAIN platform_descriptors'
                  /\ platform_descriptors'[CurrentPlatform.name]
                        = PrescribedDescriptor(CurrentPlatform, asset)
             ELSE /\ pc' = "failed"
                  /\ error' \in {"RuntimeError: failed to fetch digest",
                                 "HTTPError"}
                  /\ platform_descriptors' = platform_descriptors]_vars

\* C7 witness: an entry was built from a tar.zst asset whose digest body
\* carried whitespace on both sides.
C7_Witness ==
    /\ digest_body = DIGEST_BODY_B
    /\ \E n \in DOMAIN platform_descriptors :
          /\ platform_descriptors[n].digest = <<"c", "d", " ", "3", "4">>
          /\ platform_descriptors[n].format = EXT_TAR_ZST

\* The document on standard output, read back with json.loads.
EmittedDocument ==
    json_loads(Tail(stdout)).value

\* C4: after a successful run the emitted document is named
\* "cpython-<version>" and its platforms mapping has exactly the names
\* configured with free_threaded = f; the entry under n is the prescribed
\* descriptor of the one asset of the release that passes the filter for
\* Platform(n, f).
C4_OneEntryPerRequestedPlatform ==
    pc = "done" =>
        /\ json_loads(Tail(stdout)).ok
        /\ EmittedDocument["name"] = DISTRIBUTION_PREFIX \o args.cpython_version
        /\ DOMAIN EmittedDocument = {"name", "platforms"}
        /\ DOMAIN EmittedDocument["platforms"] = ConfiguredNames(args.free_threaded)
        /\ \A n \in ConfiguredNames(args.free_threaded) :
              LET p == Platform(n, args.free_threaded)
                  passing == {i \in 1..Len(rel.assets) :
                                 PassesFilter(rel.assets[i],
                                              args.cpython_version, p)}
              IN  /\ Cardinality(passing) = 1
                  /\ \A i \in passing :
                        EmittedDocument["platforms"][n]
                           = PrescribedDescriptor(p, rel.assets[i])

\* C4 witness: a free-threaded run of version 3.13 that emitted a document.
C4_Witness ==
    /\ pc = "done"
    /\ args.free_threaded
    /\ args.cpython_version = VERSION_3_13
    /\ Len(stdout) = 3

\* The state part of C9: one release fetch, no URL opened twice, platforms
\* handled in order (entry k is built before platform k + 1 is selected),
\* a failure leaves standard output empty, and output appears only when
\* every requested platform has its descriptor.
C9_State ==
    /\ Cardinality({i \in 1..Len(requests) :
                       requests[i].url = RELEASES_LATEST_URL})
          = IF pc = "fetch" THEN 0 ELSE 1
    /\ \A i, j \in 1..Len(requests) :
          i # j => requests[i].url # requests[j].url
    /\ pc \in {"select", "build"} =>
          /\ Cardinality(DOMAIN platform_descriptors) = idx - 1
          /\ Len(requests) = idx
    /\ (error # "none") <=> (pc = "failed")
    /\ pc = "failed" => stdout = <<>> /\ validation = NotValidated
    /\ stdout # <<>> =>
          /\ error = "none"
          /\ stdout[1] = TextLine(SHEBANG)
          /\ DOMAIN platform_descriptors = ConfiguredNames(args.free_threaded)

\* C9: the generator is fail-fast and its output all-or-nothing: C9_State
\* always holds, and once main has failed nothing further happens.
C9_FailFastAllOrNothing ==
    /\ []C9_State
    /\ [][error # "none" => UNCHANGED genVars]_vars

\* C9 witness: a run that failed after building some platforms, with
\* nothing printed.
C9_Witness ==
    /\ pc = "failed"
    /\ platform_descriptors # EmptyDict
    /\ Len(requests) >= 3
    /\ stdout = <<>>

\* C10: the flag the validator reads off the emitted name equals the
\* --free-threaded flag of the run, and an emitted descriptor whose
\* interpreter reports the requested version and the requested build
\* flavor passes check_path.
C10_FlagAgreement ==
    pc = "done" =>
        /\ declared_free_threaded(EmittedDocument["name"]) = args.free_threaded
        /\ ( /\ validation # NotValidated
             /\ validation.launch.returncode = 0
             /\ StartsWith(validation.launch.stdout, args.cpython_version)
             /\ Contains(validation.launch.stdout, FREE_THREADING_PHRASE)
                   <=> args.free_threaded )
           => validation.outcome = "pass"

(***************************************************************************)
(* Properties of the validator (checked under ValidatorSpec).              *)
(***************************************************************************)

\* The number of files the arguments name: one per file argument, one per
\* entry of a directory argument.
RECURSIVE GivenFileCount(_)
GivenFileCount(args_) ==
    IF args_ = <<>> THEN 0
    ELSE (IF Head(args_).is_dir THEN Len(Head(args_).entries) ELSE 1)
             + GivenFileCount(Tail(args_))

\* The file reads among the events, in order.
FileReads ==
    SelectSeq(events, LAMBDA e : e.op = "read")

\* C5: with the launcher present, once the validator has exited every
\* given file was read and checked, in order, whatever happened to the
\* files before it, and the status is 1 when some check failed and 0 when
\* none did.
C5_AllFilesCheckedAndStatus ==
    (vpc = "exited" /\ dotslash) =>
        /\ Len(descriptor_paths) = GivenFileCount(argv)
        /\ Len(outcomes) = GivenFileCount(argv)
        /\ \A i \in 1..Len(outcomes) : outcomes[i].path = i
        /\ Len(FileReads) = GivenFileCount(argv)
        /\ \A i \in 1..Len(FileReads) : FileReads[i].path = i
        /\ exit_status =
              IF \E i \in 1..Len(outcomes) : outcomes[i].outcome # "pass"
              THEN 1 ELSE 0

\* C5 witness: the first file failed, the second was still checked and
\* passed, and the status is 1.
C5_Witness ==
    /\ vpc = "exited"
    /\ exit_status = 1
    /\ Len(outcomes) >= 2
    /\ outcomes[1].outcome # "pass"
    /\ outcomes[2].outcome = "pass"

\* C6: without the launcher on the path the validator reads no file and
\* starts no launcher, and it exits with status -1.
C6_MissingLauncherExit ==
    (vpc # "idle" /\ ~dotslash) =>
        /\ events = <<>>
        /\ outcomes = <<>>
        /\ vpc \in {"start", "exited"}
        /\ vpc = "exited" => exit_status = -1

\* C6 witness: arguments were given, the launcher was missing, and the
\* validator exited with -1.
C6_Witness ==
    /\ ~dotslash
    /\ vpc = "exited"
    /\ exit_status = -1
    /\ Len(argv) >= 1

\* The versions V of the descriptor names "cpython-<V>" in FileCatalogue.
DeclaredVersions ==
    { VERSION_3_13,
      VERSION_3_13 \o FREE_THREADED_SUFFIX,
      VERSION_3_1 \o FREE_THREADED_SUFFIX }

====
